---------------------------- MODULE Spec2Model ----------------------------
(***************************************************************************)
(* A model of the geotolkparser decoding engine (src/geotolktools/         *)
(* parser.py).  Text is modelled at character level: a str is a sequence   *)
(* of one-character strings, so that str.split, str.index, slicing,        *)
(* str.isdigit, int(), float() and datetime.strptime are computed the way  *)
(* Python computes them.  A Python exception is modelled as a result       *)
(* record whose field exc names the exception class ("none" = returned).   *)
(***************************************************************************)
EXTENDS Integers, Sequences, FiniteSets, TLC

VARIABLES
    op,               \* which function of parser.py is being run
    pc,               \* position inside that function
    lines,            \* argument `lines` of the three parse_*_file functions
    blocks,           \* local `blocks` (result of the segmenter)
    block_index,      \* local `block_index` of parse_snd_file
    cur,              \* loop variable `current_block_index` of parse_snd_file
    snd_metadata,     \* local `snd_metadata` / `metadata` of the parse functions
    data_blocks,      \* local `data_blocks` (snd) / `data`,`rows` (prv, tlk)
    errors,           \* local `errors`
    raised,           \* exception that escaped to the caller, "none" if none
    ret,              \* return value of the pure helper under test
    symbol,           \* argument of _label_from_symbol
    block,            \* argument `block` of the block-level helpers
    mapping,          \* argument `mapping` (and the tokenizer) of the extractors
    parsed_snd_block  \* argument of _convert_comment_codes_to_indicator_columns

vars == <<op, pc, lines, blocks, block_index, cur, snd_metadata, data_blocks,
          errors, raised, ret, symbol, block, mapping, parsed_snd_block>>

-----------------------------------------------------------------------------
(* Characters.  SUP2 is U+00B2 (superscript two): str.isdigit() is True    *)
(* for it, int() rejects it and the regex class \d does not match it.      *)

DecDigits == {"0", "1", "2", "3", "4", "5", "6", "7", "8", "9"}

SUP2 == "SUP2"

DigitVal(c) ==
    CASE c = "0" -> 0 [] c = "1" -> 1 [] c = "2" -> 2 [] c = "3" -> 3
      [] c = "4" -> 4 [] c = "5" -> 5 [] c = "6" -> 6 [] c = "7" -> 7
      [] c = "8" -> 8 [] c = "9" -> 9

IsSpace(c) == c = " "

\* s[a:b] of Python with 0 <= a, on a 1-indexed TLA+ sequence
Slice(s, a, b) ==
    LET hi == IF b < Len(s) THEN b ELSE Len(s)
    IN  IF a >= hi THEN <<>> ELSE SubSeq(s, a + 1, hi)

RECURSIVE SplitFrom(_, _, _, _)
SplitFrom(s, i, tok, acc) ==
    IF i > Len(s)
    THEN IF tok = <<>> THEN acc ELSE Append(acc, tok)
    ELSE IF IsSpace(s[i])
         THEN SplitFrom(s, i + 1, <<>>, IF tok = <<>> THEN acc ELSE Append(acc, tok))
         ELSE SplitFrom(s, i + 1, Append(tok, s[i]), acc)

\* str.split() with no argument: the runs of non-whitespace characters
Split(s) == SplitFrom(s, 1, <<>>, <<>>)

RECURSIVE LStrip(_)
LStrip(s) == IF s # <<>> /\ IsSpace(Head(s)) THEN LStrip(Tail(s)) ELSE s

RECURSIVE RStrip(_)
RStrip(s) ==
    IF s # <<>> /\ IsSpace(s[Len(s)]) THEN RStrip(SubSeq(s, 1, Len(s) - 1)) ELSE s

\* str.strip()
Strip(s) == RStrip(LStrip(s))

\* str.isdigit(): non-empty and every character is a digit character
IsDigit(s) == s # <<>> /\ \A i \in 1..Len(s) : s[i] \in DecDigits \cup {SUP2}

AllDecimal(s) == s # <<>> /\ \A i \in 1..Len(s) : s[i] \in DecDigits

RECURSIVE DecValue(_)
DecValue(s) ==
    IF s = <<>> THEN 0 ELSE 10 * DecValue(SubSeq(s, 1, Len(s) - 1)) + DigitVal(s[Len(s)])

\* "a" + "b"
Concat(a, b) == a \o b

\* str.index(sub) as a 0-based position, -1 standing for ValueError
IndexOf(s, sub) ==
    LET hits == {i \in 0..(Len(s) - Len(sub)) : SubSeq(s, i + 1, i + Len(sub)) = sub}
    IN  IF hits = {} THEN -1 ELSE CHOOSE i \in hits : \A j \in hits : i <= j

-----------------------------------------------------------------------------
(* Values of a Record.  np.nan is the missing-value sentinel.              *)

NaN == [t |-> "nan", n |-> 0, s |-> <<>>]
IntV(k) == [t |-> "int", n |-> k, s |-> <<>>]
StrV(x) == [t |-> "str", n |-> 0, s |-> x]
FloatV(x) == [t |-> "float", n |-> 0, s |-> x]
DateV(k) == [t |-> "date", n |-> k, s |-> <<>>]

Ok(v) == [exc |-> "none", val |-> v]
Raise(e) == [exc |-> e, val |-> NaN]

\* int(text): optional sign, then decimal digits, surrounding whitespace ignored
Signed(x) == x # <<>> /\ Head(x) \in {"-", "+"}

Unsigned(x) == IF Signed(x) THEN Tail(x) ELSE x

IntOfStripped(x, body) ==
    IF AllDecimal(body)
    THEN Ok(IntV(IF Signed(x) /\ Head(x) = "-" THEN 0 - DecValue(body) ELSE DecValue(body)))
    ELSE Raise("ValueError")

IntOfBody(x) == IntOfStripped(x, Unsigned(x))

IntOf(text) == IntOfBody(Strip(text))

\* float(text): optional sign, decimal digits with at most one point and at
\* least one digit (the alphabet of the inputs has no exponent, inf or nan)
FloatOfStripped(x, body) ==
    IF /\ Cardinality({i \in 1..Len(body) : body[i] = "."}) <= 1
       /\ \E i \in 1..Len(body) : body[i] \in DecDigits
       /\ \A i \in 1..Len(body) : body[i] \in DecDigits \cup {"."}
    THEN Ok(FloatV(x))
    ELSE Raise("ValueError")

FloatOfBody(x) == FloatOfStripped(x, Unsigned(x))

FloatOf(text) == FloatOfBody(Strip(text))

-----------------------------------------------------------------------------
(* datetime.strptime.  A format is a sequence of directives and literal    *)
(* characters; each directive is the ordered alternation of CPython's      *)
(* _strptime regex, matched by backtracking in that order.  The first      *)
(* match found decides: it must consume the whole string and name a date   *)
(* that exists.                                                            *)

_KNOWN_SURVEY_CODES == {7, 10, 21, 22, 23, 24, 25, 26}

_DATETIME_FMTS ==
    << <<"%d", ".", "%m", ".", "%Y">>,
       <<"%Y", "-", "%m", "-", "%d">>,
       <<"%Y", "%m", "0", "%d">>,
       <<"%d", ".", "%m", ".", "%y">>,
       <<"%Y", "-", "%d", "-", "%m">> >>

At(s, i) == IF i >= 1 /\ i <= Len(s) THEN s[i] ELSE "EOS"

NonZero == DecDigits \ {"0"}

\* the candidates [v |-> value, e |-> next position] of one format item at i
Cands(item, s, i) ==
    LET a == At(s, i)
        b == At(s, i + 1)
        two(v) == <<[v |-> v, e |-> i + 2]>>
        one(v) == <<[v |-> v, e |-> i + 1]>>
    IN  CASE item = "%d" ->
               (IF a = "3" /\ b \in {"0", "1"} THEN two(30 + DigitVal(b)) ELSE <<>>)
            \o (IF a \in {"1", "2"} /\ b \in DecDigits
                THEN two(10 * DigitVal(a) + DigitVal(b)) ELSE <<>>)
            \o (IF a = "0" /\ b \in NonZero THEN two(DigitVal(b)) ELSE <<>>)
            \o (IF a \in NonZero THEN one(DigitVal(a)) ELSE <<>>)
            \o (IF a = " " /\ b \in NonZero THEN two(DigitVal(b)) ELSE <<>>)
          [] item = "%m" ->
               (IF a = "1" /\ b \in {"0", "1", "2"} THEN two(10 + DigitVal(b)) ELSE <<>>)
            \o (IF a = "0" /\ b \in NonZero THEN two(DigitVal(b)) ELSE <<>>)
            \o (IF a \in NonZero THEN one(DigitVal(a)) ELSE <<>>)
          [] item = "%Y" ->
               IF \A k \in 0..3 : At(s, i + k) \in DecDigits
               THEN <<[v |-> DecValue(SubSeq(s, i, i + 3)), e |-> i + 4]>>
               ELSE <<>>
          [] item = "%y" ->
               IF a \in DecDigits /\ b \in DecDigits
               THEN LET v == 10 * DigitVal(a) + DigitVal(b)
                    IN  two(IF v >= 69 THEN 1900 + v ELSE 2000 + v)
               ELSE <<>>
          [] OTHER -> IF a = item THEN one(0) ELSE <<>>

PutField(acc, item, v) ==
    CASE item = "%d" -> [acc EXCEPT !.d = v]
      [] item = "%m" -> [acc EXCEPT !.m = v]
      [] item \in {"%Y", "%y"} -> [acc EXCEPT !.y = v]
      [] OTHER -> acc

RECURSIVE MatchFrom(_, _, _, _, _)
RECURSIVE TryCands(_, _, _, _, _, _)
RECURSIVE FirstMatch(_, _, _, _, _, _, _)
MatchFrom(fmt, k, s, i, acc) ==
    IF k > Len(fmt)
    THEN [ok |-> TRUE, e |-> i, f |-> acc]
    ELSE TryCands(fmt, k, s, Cands(fmt[k], s, i), 1, acc)

TryCands(fmt, k, s, cs, j, acc) ==
    IF j > Len(cs)
    THEN [ok |-> FALSE, e |-> 0, f |-> acc]
    ELSE FirstMatch(MatchFrom(fmt, k + 1, s, cs[j].e, PutField(acc, fmt[k], cs[j].v)),
                    fmt, k, s, cs, j, acc)

\* regex backtracking: keep the match r, else try the next alternative
FirstMatch(r, fmt, k, s, cs, j, acc) ==
    IF r.ok THEN r ELSE TryCands(fmt, k, s, cs, j + 1, acc)

IsLeap(y) == (y % 4 = 0 /\ y % 100 # 0) \/ y % 400 = 0

DaysIn(m, y) ==
    CASE m = 2 -> IF IsLeap(y) THEN 29 ELSE 28
      [] m \in {4, 6, 9, 11} -> 30
      [] OTHER -> 31

\* datetime.strptime(datestr, fmt)
DateOfMatch(datestr, r) ==
    IF /\ r.ok
       /\ r.e = Len(datestr) + 1
       /\ r.f.y >= 1
       /\ r.f.d <= DaysIn(r.f.m, r.f.y)
    THEN Ok(DateV(r.f.y * 10000 + r.f.m * 100 + r.f.d))
    ELSE Raise("ValueError")

Strptime(datestr, fmt) ==
    DateOfMatch(datestr, MatchFrom(fmt, 1, datestr, 1, [d |-> 1, m |-> 1, y |-> 1900]))

RECURSIVE TryFmts(_, _)
RECURSIVE FirstFmt(_, _, _)
TryFmts(datestr, k) ==
    IF k > Len(_DATETIME_FMTS)
    THEN Raise("ValueError")
    ELSE FirstFmt(Strptime(datestr, _DATETIME_FMTS[k]), datestr, k)

\* return on success, `continue` on ValueError
FirstFmt(r, datestr, k) == IF r.exc = "none" THEN r ELSE TryFmts(datestr, k + 1)

_try_parse_datetime(datestr) == TryFmts(datestr, 1)

\* the try of _is_data_block: it covers int(survey_code) as well as the date
\* parse, and `except Exception` sends either failure to date.isdigit()
TryKnownCode(code, parsed, date) ==
    IF code.exc # "none"
    THEN Ok(IsDigit(date))
    ELSE IF code.val.n \notin _KNOWN_SURVEY_CODES
    THEN Ok(FALSE)
    ELSE IF parsed.exc = "none"
    THEN Ok(TRUE)
    ELSE Ok(IsDigit(date))

FirstLineTest(first_line_vals) ==
    IF Len(first_line_vals) # 2
    THEN Ok(FALSE)
    ELSE IF ~IsDigit(first_line_vals[1])
    THEN Ok(FALSE)
    ELSE TryKnownCode(IntOf(first_line_vals[1]),
                      _try_parse_datetime(first_line_vals[2]),
                      first_line_vals[2])

_is_data_block(blk) ==
    IF blk = <<>> THEN Raise("IndexError") ELSE FirstLineTest(Split(blk[1]))

-----------------------------------------------------------------------------
(* Mapping tables (module mappings, imported by parser.py with             *)
(* `from .mappings import *`).  A table is the ordered list of its         *)
(* entries; an entry is either a field taking a whole line, or a nested    *)
(* group of fields taking tokens of one line.  A data-row table is flat:   *)
(* its index is a token index.                                             *)

Field(key, index, dtype) ==
    [key |-> key, index |-> index, dtype |-> dtype, isNested |-> FALSE, nested |-> <<>>]

Nested(key, index, sub) ==
    [key |-> key, index |-> index, dtype |-> "none", isNested |-> TRUE, nested |-> sub]

first_block_mapping ==
    << Nested("line_1", 0, << Field("x", 0, "float"), Field("y", 1, "float") >>) >>

second_block_mapping ==
    << Field("stop_code", 0, "int") >>

third_block_mapping ==
    << Field("guid", 0, "str") >>

data_block_metadata_mapping ==
    << Nested("line_1", 0, << Field("survey_type_code", 0, "int"),
                              Field("date", 1, "date") >>),
       Field("block_text", 1, "str") >>

tot_data_mapping ==
    << Field("dybde", 0, "float"), Field("kommentar", 1, "str") >>

cpt_data_mapping ==
    << Field("dybde", 0, "float"), Field("kommentar", 4, "str"),
       Field("temperatur", 5, "float") >>

cpt_unknown_block_mapping ==
    << Nested("line_1", 0, << Field("cpt_unknown_1", 0, "float") >>) >>

prv_metadata_mapping ==
    << Nested("line_1", 0, << Field("prv_x", 0, "float") >>) >>

prv_data_mapping ==
    << Field("dybde", 0, "float"), Field("symbol", 1, "int") >>

tlk_data_mapping ==
    << Nested("line_1", 0, << Field("material_text_1", 0, "str"),
                              Field("material_text_2", 1, "str") >>),
       Nested("line_2", 1, << Field("top", 0, "float") >>),
       Field("comment", 2, "str") >>

-----------------------------------------------------------------------------
(* The extractors.                                                         *)

EmptyRecord == [k \in {} |-> NaN]

\* d[key] = value
SetKey(d, key, value) ==
    [k \in DOMAIN d \cup {key} |-> IF k = key THEN value ELSE d[k]]

\* {**a, **b}
Merge(a, b) ==
    [k \in DOMAIN a \cup DOMAIN b |-> IF k \in DOMAIN b THEN b[k] ELSE a[k]]

\* value["dtype"](text)
Convert(dtype, text) ==
    CASE dtype = "str" -> Ok(StrV(text))
      [] dtype = "int" -> IntOf(text)
      [] dtype = "float" -> FloatOf(text)
      [] dtype = "date" -> _try_parse_datetime(text)

\* seq[index] of Python for index >= 0
Item(seq, index) ==
    IF index >= 0 /\ index < Len(seq) THEN Ok(seq[index + 1]) ELSE Raise("IndexError")

\* the body of one `try` of the extractors: convert token `index` of `vals`;
\* IndexError and ValueError both become the sentinel
ValueOrNaN(v) == IF v.exc # "none" THEN NaN ELSE v.val

ConvertOrNaN(dtype, tok) ==
    IF tok.exc # "none" THEN NaN ELSE ValueOrNaN(Convert(dtype, tok.val))

TokenOrNaN(vals, field) == ConvertOrNaN(field.dtype, Item(vals, field.index))

NestedValue(line, field) ==
    IF line.exc # "none" THEN NaN ELSE TokenOrNaN(Split(line.val), field)

RECURSIVE NestedFrom(_, _, _, _)
NestedFrom(blk, entry, j, acc) ==
    IF j > Len(entry.nested)
    THEN acc
    ELSE NestedFrom(blk, entry, j + 1,
                    SetKey(acc, entry.nested[j].key,
                           NestedValue(Item(blk, entry.index), entry.nested[j])))

\* a whole-line field: only IndexError is caught, a failed conversion
\* (ValueError) leaves the function
WholeLineValue(line, dtype) ==
    IF line.exc # "none" THEN Ok(NaN) ELSE Convert(dtype, line.val)

WholeLine(blk, entry) == WholeLineValue(Item(blk, entry.index), entry.dtype)

RECURSIVE MetadataFrom(_, _, _, _)
RECURSIVE MetadataPut(_, _, _, _, _)
MetadataFrom(blk, table, k, acc) ==
    IF k > Len(table)
    THEN Ok(acc)
    ELSE IF table[k].isNested
         THEN MetadataFrom(blk, table, k + 1, NestedFrom(blk, table[k], 1, acc))
         ELSE MetadataPut(WholeLine(blk, table[k]), blk, table, k, acc)

MetadataPut(v, blk, table, k, acc) ==
    IF v.exc # "none"
    THEN Raise(v.exc)
    ELSE MetadataFrom(blk, table, k + 1, SetKey(acc, table[k].key, v.val))

_parse_metadata_block(blk, table) == MetadataFrom(blk, table, 1, EmptyRecord)

RECURSIVE EmptyNested(_, _, _)
EmptyNested(entry, j, acc) ==
    IF j > Len(entry.nested)
    THEN acc
    ELSE EmptyNested(entry, j + 1, SetKey(acc, entry.nested[j].key, NaN))

RECURSIVE EmptyFrom(_, _, _)
EmptyFrom(table, k, acc) ==
    IF k > Len(table)
    THEN acc
    ELSE EmptyFrom(table, k + 1,
                   IF table[k].isNested
                   THEN EmptyNested(table[k], 1, acc)
                   ELSE SetKey(acc, table[k].key, NaN))

_initialize_empty_mapping(table) == EmptyFrom(table, 1, EmptyRecord)

-----------------------------------------------------------------------------
(* Line tokenizers.                                                        *)

comment_char_length == 25

_tot_split_func(line) == Ok(Split(line))

_prv_split_func(line) == Ok(Split(line))

\* all[:4]
FirstFour(all) == SubSeq(all, 1, IF Len(all) < 4 THEN Len(all) ELSE 4)

CptSplitAt(line, first_values, start_index_comment, stop_index_comment) ==
    Ok(first_values
       \o <<Strip(Slice(line, start_index_comment, stop_index_comment))>>
       \o Split(Slice(line, stop_index_comment, Len(line))))

CptSplitFrom(line, first_values, fourth, fourth_index) ==
    IF fourth_index < 0
    THEN Raise("ValueError")
    ELSE CptSplitAt(line, first_values,
                    fourth_index + Len(fourth) + 1,
                    fourth_index + Len(fourth) + 1 + comment_char_length)

CptSplitFourth(line, first_values, fourth) ==
    CptSplitFrom(line, first_values, fourth,
                 IndexOf(line, Concat(Concat(<<" ">>, fourth), <<" ">>)))

CptSplitFirst(line, first_values) ==
    IF first_values = <<>>
    THEN Raise("IndexError")
    ELSE CptSplitFourth(line, first_values, first_values[Len(first_values)])

_cpt_split_func(line) == CptSplitFirst(line, FirstFour(Split(line)))

SplitWith(line_split_func, line) ==
    CASE line_split_func = "_tot_split_func" -> _tot_split_func(line)
      [] line_split_func = "_prv_split_func" -> _prv_split_func(line)
      [] line_split_func = "_cpt_split_func" -> _cpt_split_func(line)

RECURSIVE RowFrom(_, _, _, _)
RowFrom(line_vals, table, k, row) ==
    IF k > Len(table)
    THEN row
    ELSE RowFrom(line_vals, table, k + 1,
                 SetKey(row, table[k].key, TokenOrNaN(line_vals, table[k])))

\* the tokenizer is called outside the try: what it raises leaves the function
RECURSIVE DataFrom(_, _, _, _, _)
RECURSIVE DataRow(_, _, _, _, _, _)
DataFrom(blk, table, line_split_func, i, parsed_lines) ==
    IF i > Len(blk)
    THEN Ok(parsed_lines)
    ELSE DataRow(SplitWith(line_split_func, blk[i]), blk, table, line_split_func, i,
                 parsed_lines)

DataRow(line_vals, blk, table, line_split_func, i, parsed_lines) ==
    IF line_vals.exc # "none"
    THEN Raise(line_vals.exc)
    ELSE DataFrom(blk, table, line_split_func, i + 1,
                  Append(parsed_lines, RowFrom(line_vals.val, table, 1, EmptyRecord)))

_parse_data_block(blk, table, line_split_func) ==
    DataFrom(blk, table, line_split_func, 1, <<>>)

-----------------------------------------------------------------------------
(* Symbol decoder.  A label is an atomic string; NanLabel is the np.nan    *)
(* that heads the positive table.  The text made by " ".join is the        *)
(* sequence of its pieces (labels and separators), "" being <<>>.          *)

NanLabel == "np.nan"

\* 'Trerester' 'Kvikkleire' has no comma between: one entry, 13 in all
_SYMBOL_LABELS_NEG ==
    << "Leire", "Fyllemasse", "Grus", "Matjord", "Berg", "Sand", "Skjell", "Silt",
       "Stein & blokk", "Morene", "Torv", "Gytje, dy", "TreresterKvikkleire" >>

_SYMBOL_LABELS_POS ==
    << NanLabel, "Leire", "Silt", "Sand", "Grus", "Stein", "Fyllemasse", "Matjord",
       "Trerester", "Skjell", "Kvikkleire" >>

zfill_width == 13

\* reversed(bin(n)[2:]): the bits of n > 0, least significant first
RECURSIVE BitsLsbFirst(_)
BitsLsbFirst(n) == IF n = 0 THEN <<>> ELSE <<n % 2>> \o BitsLsbFirst(n \div 2)

\* reversed(bin(n)[2:].zfill(13))
ReversedBinStr(n) ==
    LET b == BitsLsbFirst(n)
    IN  IF Len(b) >= zfill_width THEN b ELSE b \o [i \in 1..(zfill_width - Len(b)) |-> 0]

\* str(n) for n > 0, as the sequence of its digits' values
RECURSIVE DigitsOf(_)
DigitsOf(n) == IF n < 10 THEN <<n>> ELSE DigitsOf(n \div 10) \o <<n % 10>>

RECURSIVE LabelsAt(_, _, _, _)
RECURSIVE LabelPut(_, _, _, _, _)
LabelsAt(table, positions, k, acc) ==
    IF k > Len(positions)
    THEN Ok(acc)
    ELSE LabelPut(Item(table, positions[k]), table, positions, k, acc)

LabelPut(l, table, positions, k, acc) ==
    IF l.exc # "none"
    THEN Raise(l.exc)
    ELSE LabelsAt(table, positions, k + 1, Append(acc, l.val))

RECURSIVE SetBits(_, _)
SetBits(bits, pos) ==
    IF pos >= Len(bits)
    THEN <<>>
    ELSE (IF bits[pos + 1] = 1 THEN <<pos>> ELSE <<>>) \o SetBits(bits, pos + 1)

\* _label_from_symbol: `sym` is the value of the row's field (int or np.nan)
_label_from_symbol(sym) ==
    IF sym.t # "int"
    THEN Raise("ValueError")
    ELSE IF sym.n < 0
    THEN LabelsAt(_SYMBOL_LABELS_NEG, SetBits(ReversedBinStr(0 - sym.n), 0), 1, <<>>)
    ELSE IF sym.n > 0
    THEN LabelsAt(_SYMBOL_LABELS_POS, DigitsOf(sym.n), 1, <<>>)
    ELSE Ok(<<>>)

\* " ".join(soiltypes): TypeError when an item is not a str
RECURSIVE JoinFrom(_, _)
JoinFrom(soiltypes, k) ==
    IF k > Len(soiltypes)
    THEN <<>>
    ELSE (IF k > 1 THEN <<" ">> ELSE <<>>) \o <<soiltypes[k]>> \o JoinFrom(soiltypes, k + 1)

Join(soiltypes) ==
    IF \E k \in 1..Len(soiltypes) : soiltypes[k] = NanLabel
    THEN Raise("TypeError")
    ELSE Ok(StrV(JoinFrom(soiltypes, 1)))

JoinLabels(soiltypes) ==
    IF soiltypes.exc # "none" THEN Raise(soiltypes.exc) ELSE Join(soiltypes.val)

RECURSIVE SymbolRows(_, _)
RECURSIVE SymbolPut(_, _, _)
SymbolRows(data, i) ==
    IF i > Len(data)
    THEN Ok(data)
    ELSE SymbolPut(JoinLabels(_label_from_symbol(data[i]["symbol"])), data, i)

SymbolPut(text, data, i) ==
    IF text.exc # "none"
    THEN Raise(text.exc)
    ELSE SymbolRows([data EXCEPT ![i] = SetKey(@, "symbol_soiltype", text.val)], i + 1)

\* the `if not row[...]` sits after the loop: it tests the last row only
LastRowOnly(data) ==
    LET n == Len(data)
    IN  IF data[n]["symbol_soiltype"].s = <<>>
        THEN [data EXCEPT ![n] = SetKey(@, "symbol_soiltype", NaN)]
        ELSE data

AfterLoop(looped) ==
    IF looped.exc # "none"
    THEN Raise(looped.exc)
    ELSE IF looped.val = <<>>
    THEN Raise("UnboundLocalError")
    ELSE Ok(LastRowOnly(looped.val))

_extract_and_add_symbol_text(data) == AfterLoop(SymbolRows(data, 1))

-----------------------------------------------------------------------------
(* Segmenters and block-level helpers.                                     *)

STAR == <<"*">>

RECURSIVE TlkFrom(_, _, _, _, _)
TlkFrom(ls, i, blks, blk, c) ==
    IF i > Len(ls) \/ ls[i] = STAR
    THEN Append(blks, blk)
    ELSE IF c = 3
         THEN TlkFrom(ls, i + 1, Append(blks, blk), <<ls[i]>>, 1)
         ELSE TlkFrom(ls, i + 1, blks, Append(blk, ls[i]), c + 1)

_split_tlk_to_blocks(ls) == TlkFrom(ls, 1, <<>>, <<>>, 0)

RECURSIVE GetFrom(_, _, _, _)
GetFrom(ls, i, blks, current_block) ==
    IF i > Len(ls)
    THEN IF current_block # <<>> THEN Append(blks, current_block) ELSE blks
    ELSE IF ls[i] = STAR
         THEN GetFrom(ls, i + 1, Append(blks, current_block), <<>>)
         ELSE GetFrom(ls, i + 1, blks, Append(current_block, ls[i]))

NonEmpty(b) == b # <<>>

_get_blocks(ls) == SelectSeq(GetFrom(ls, 1, <<>>, <<>>), NonEmpty)

LastIsAnnet(toks) ==
    IF toks = <<>>
    THEN Raise("IndexError")
    ELSE Ok(toks[Len(toks)] = <<"A", "n", "n", "e", "t">>)

_is_unknown_material(blk) ==
    IF blk = <<>> THEN Raise("IndexError") ELSE LastIsAnnet(Split(blk[1]))

_add_empty_value_as_material_text_1(blk) ==
    [blk EXCEPT ![1] = Concat(<<"N", "o", "n", "e">>, @)]

_get_data_block_survey_type(data_block_metadata) ==
    IF "survey_type_code" \notin DOMAIN data_block_metadata
    THEN Raise("IndexError")
    ELSE Ok(data_block_metadata["survey_type_code"])

IsCode(v, k) == v.t = "int" /\ v.n = k

\* returns [exc, metadata, data]
Unknown(e, metadata, data) == [exc |-> e, metadata |-> metadata, data |-> data]

UnknownWithData(metadata, data) ==
    IF data.exc # "none"
    THEN Unknown(data.exc, EmptyRecord, <<>>)
    ELSE Unknown("none", metadata, data.val)

UnknownOfType(data_lines, metadata, survey_type) ==
    IF survey_type.exc # "none"
    THEN Unknown(survey_type.exc, EmptyRecord, <<>>)
    ELSE IF IsCode(survey_type.val, 25)
    THEN UnknownWithData(metadata,
             _parse_data_block(data_lines, tot_data_mapping, "_tot_split_func"))
    ELSE IF IsCode(survey_type.val, 7)
    THEN UnknownWithData(metadata,
             _parse_data_block(data_lines, cpt_data_mapping, "_cpt_split_func"))
    ELSE Unknown("ValueError", EmptyRecord, <<>>)

UnknownOfMetadata(data_lines, metadata) ==
    IF metadata.exc # "none"
    THEN Unknown(metadata.exc, EmptyRecord, <<>>)
    ELSE UnknownOfType(data_lines, metadata.val,
                       _get_data_block_survey_type(metadata.val))

_parse_unknown_data_block(blk) ==
    UnknownOfMetadata(
        SubSeq(blk, 3, Len(blk)),
        _parse_metadata_block(SubSeq(blk, 1, IF Len(blk) < 2 THEN Len(blk) ELSE 2),
                              data_block_metadata_mapping))

-----------------------------------------------------------------------------
(* Comment codes.  The two code tables belong to module mappings: textual  *)
(* codes translate to the text of a numeric code, and a token is a valid   *)
(* code when it is one of those texts.                                     *)

geosuite_textcode_to_code ==
    [k \in { <<"R", "1">>, <<"R", "2">>, <<"Y", "1">>, <<"Y", "2">>,
             <<"S", "1">>, <<"S", "2">>, <<"B", "1">>, <<"B", "2">>,
             <<"P", "1">>, <<"P", "2">>, <<"F", "1">>, <<"F", "2">> } |->
        CASE k = <<"R", "1">> -> <<"7", "0">> [] k = <<"R", "2">> -> <<"7", "1">>
          [] k = <<"Y", "1">> -> <<"7", "2">> [] k = <<"Y", "2">> -> <<"7", "3">>
          [] k = <<"S", "1">> -> <<"7", "4">> [] k = <<"S", "2">> -> <<"7", "5">>
          [] k = <<"B", "1">> -> <<"7", "6">> [] k = <<"B", "2">> -> <<"7", "7">>
          [] k = <<"P", "1">> -> <<"7", "8">> [] k = <<"P", "2">> -> <<"7", "9">>
          [] k = <<"F", "1">> -> <<"4", "1">> [] k = <<"F", "2">> -> <<"4", "2">>]

\* the keys of geosuite_code_to_label
geosuite_code_to_label == {41, 42}

TextcodeValues == {geosuite_textcode_to_code[k] : k \in DOMAIN geosuite_textcode_to_code}

EmptyIndicators ==
    [okt_rotasjon |-> NaN, spyling |-> NaN, slag |-> NaN, pumping |-> NaN,
     comment_label |-> <<>>]

\* a variant in which the flags are OR-accumulated: an off-code changes
\* nothing
OrAccumulatedIndicators(code, indicators) ==
    CASE code \in geosuite_code_to_label ->
             [indicators EXCEPT !.comment_label = Append(@, code)]
      [] code \notin geosuite_code_to_label /\ code = 70 ->
             [indicators EXCEPT !.okt_rotasjon = IntV(1)]
      [] code \notin geosuite_code_to_label /\ code = 72 ->
             [indicators EXCEPT !.spyling = IntV(1)]
      [] code \notin geosuite_code_to_label /\ code = 74 ->
             [indicators EXCEPT !.slag = IntV(1)]
      [] code \notin geosuite_code_to_label /\ code = 76 ->
             [indicators EXCEPT !.slag = IntV(1), !.spyling = IntV(1)]
      [] code \notin geosuite_code_to_label /\ code = 78 ->
             [indicators EXCEPT !.pumping = IntV(1)]
      [] OTHER -> indicators

\* lines 220-246
_modify_indicator_by_code(code, indicators) ==
    CASE code \in geosuite_code_to_label ->
             [indicators EXCEPT !.comment_label = Append(@, code)]
      [] code \notin geosuite_code_to_label /\ code = 70 ->
             [indicators EXCEPT !.okt_rotasjon = IntV(1)]
      [] code \notin geosuite_code_to_label /\ code = 71 ->
             [indicators EXCEPT !.okt_rotasjon = IntV(0)]
      [] code \notin geosuite_code_to_label /\ code = 72 ->
             [indicators EXCEPT !.spyling = IntV(1)]
      [] code \notin geosuite_code_to_label /\ code = 73 ->
             [indicators EXCEPT !.spyling = IntV(0)]
      [] code \notin geosuite_code_to_label /\ code = 74 ->
             [indicators EXCEPT !.slag = IntV(1)]
      [] code \notin geosuite_code_to_label /\ code = 75 ->
             [indicators EXCEPT !.slag = IntV(0)]
      [] code \notin geosuite_code_to_label /\ code = 76 ->
             [indicators EXCEPT !.slag = IntV(1), !.spyling = IntV(1)]
      [] code \notin geosuite_code_to_label /\ code = 77 ->
             [indicators EXCEPT !.slag = IntV(0), !.spyling = IntV(0)]
      [] code \notin geosuite_code_to_label /\ code = 78 ->
             [indicators EXCEPT !.pumping = IntV(1)]
      [] code \notin geosuite_code_to_label /\ code = 79 ->
             [indicators EXCEPT !.pumping = IntV(0)]
      [] OTHER -> indicators

\* max(comment_label)
_merge_comments_to_single_label(comment_label) ==
    CHOOSE m \in {comment_label[i] : i \in 1..Len(comment_label)} :
        \A i \in 1..Len(comment_label) : comment_label[i] <= m

\* the loop over comments.split()
\* textual codes are translated, every other token is kept as it is
Translate(token) ==
    IF token \in DOMAIN geosuite_textcode_to_code
    THEN geosuite_textcode_to_code[token]
    ELSE token

ApplyCode(code, indicators) ==
    IF code \in TextcodeValues
    THEN _modify_indicator_by_code(IntOf(code).val.n, indicators)
    ELSE indicators

RECURSIVE CodesFrom(_, _, _)
CodesFrom(tokens, k, indicators) ==
    IF k > Len(tokens)
    THEN indicators
    ELSE CodesFrom(tokens, k + 1, ApplyCode(Translate(tokens[k]), indicators))

\* lines 281-284: the accumulated labels collapse to their maximum
MergedIndicators(indicators) ==
    [indicators EXCEPT !.comment_label =
        IF @ # <<>> THEN IntV(_merge_comments_to_single_label(@)) ELSE NaN]

\* the indicators of one row; they are initialised anew for every row
RowIndicators(comments) ==
    MergedIndicators(IF comments.t = "str"
                     THEN CodesFrom(Split(comments.s), 1, EmptyIndicators)
                     ELSE EmptyIndicators)

_convert_comment_codes_to_indicator_columns(rows) ==
    [i \in 1..Len(rows) |-> Merge(rows[i], RowIndicators(rows[i]["kommentar"]))]

-----------------------------------------------------------------------------
(* Inputs.  Lines are drawn from small vocabularies, spelled out as        *)
(* character sequences.                                                    *)

Sp(a, b) == a \o <<" ">> \o b

Date_dmY == <<"0", "1", ".", "0", "2", ".", "2", "0", "2", "0">>
Date_Ymd == <<"2", "0", "2", "0", "-", "0", "2", "-", "0", "1">>
Date_bad == <<"3", "1", ".", "0", "2", ".", "2", "0", "2", "0">>

\* every sequence over V of length at most n
SeqsUpTo(V, n) == UNION {[1..k -> V] : k \in 0..n}

Unused == "-"

-----------------------------------------------------------------------------
(* parse_prv_file                                                          *)

MaxPrvLines == 4

PrvLines ==
    { STAR,
      <<>>,
      <<"1", ".", "5">>,
      Sp(<<"1">>, <<"0">>),
      Sp(<<"2">>, <<"2", "3">>),
      Sp(<<"3">>, <<"-", "5">>),
      Sp(<<"4">>, <<"1", "0">>),
      Sp(<<"5">>, <<"x">>),
      Sp(<<"6">>, <<"-", "8", "1", "9", "2">>) }

InitPrv ==
    /\ op = "prv"
    /\ pc = "start"
    /\ lines \in SeqsUpTo(PrvLines, MaxPrvLines)
    /\ blocks = <<>>
    /\ block_index = 0
    /\ cur = 0
    /\ snd_metadata = EmptyRecord
    /\ data_blocks = <<>>
    /\ errors = <<>>
    /\ raised = "none"
    /\ ret = Unused
    /\ symbol = 0
    /\ block = <<>>
    /\ mapping = Unused
    /\ parsed_snd_block = <<>>

\* line 446: blocks[0] is decoded as the metadata; no block, IndexError
PrvFirstBlock(first) ==
    IF first.exc # "none"
    THEN Raise(first.exc)
    ELSE _parse_metadata_block(first.val, prv_metadata_mapping)

PrvMetadataStep(metadata) ==
    IF metadata.exc = "none"
    THEN /\ snd_metadata' = metadata.val
         /\ pc' = "data"
         /\ raised' = raised
    ELSE /\ snd_metadata' = snd_metadata
         /\ pc' = "done"
         /\ raised' = metadata.exc

\* lines 442-446: segment, then decode the first block
PrvMetadata ==
    /\ op = "prv"
    /\ pc = "start"
    /\ blocks' = _get_blocks(lines)
    /\ PrvMetadataStep(PrvFirstBlock(Item(_get_blocks(lines), 0)))
    /\ UNCHANGED <<op, lines, block_index, cur, data_blocks, errors, ret, symbol,
                   block, mapping, parsed_snd_block>>

\* lines 454-456, inside the try
PrvRows(parsed) ==
    IF parsed.exc # "none"
    THEN Raise(parsed.exc)
    ELSE _extract_and_add_symbol_text(parsed.val)

\* lines 457-458: only ValueError is caught
PrvDataStep(data) ==
    /\ data_blocks' = IF data.exc = "none" THEN data.val ELSE <<>>
    /\ raised' = IF data.exc \in {"none", "ValueError"} THEN raised ELSE data.exc
    /\ errors' = errors

\* lines 448-460: the data block, the symbol texts, and the return
PrvData ==
    /\ op = "prv"
    /\ pc = "data"
    /\ pc' = "done"
    /\ IF Len(blocks) < 2
       THEN /\ data_blocks' = <<>>
            /\ errors' = Append(errors, "PRV contains less than 2 blocks. Cannot parse")
            /\ raised' = raised
       ELSE PrvDataStep(PrvRows(_parse_data_block(blocks[2], prv_data_mapping,
                                                  "_prv_split_func")))
    /\ UNCHANGED <<op, lines, blocks, block_index, cur, snd_metadata, ret, symbol,
                   block, mapping, parsed_snd_block>>

NextPrv == PrvMetadata \/ PrvData

SpecPrv == InitPrv /\ [][NextPrv]_vars

-----------------------------------------------------------------------------
(* parse_snd_file.  The input is a sequence of blocks drawn from a small   *)
(* vocabulary, written out as lines with a "*" line after each block (the  *)
(* last "*" may be missing); the empty block gives two "*" lines in a row. *)

MaxSndBlocks == 4

min_blocks == 3

Line_1234 == Sp(Sp(Sp(<<"1">>, <<"2">>), <<"3">>), <<"4">>)

SndBlocks ==
    { <<>>,
      << <<"3">> >>,
      << <<"a", "b">> >>,
      << Sp(<<"7">>, Date_dmY), <<"h">>, Sp(Line_1234, <<"R", "1">>) >>,
      << Sp(<<"7">>, Date_dmY), <<"h">>, Line_1234 >>,
      << Sp(<<"7">>, <<"1", "2", "3">>), <<"h">>, <<>> >>,
      << Sp(<<"2", "5">>, Date_Ymd), <<"h">>, Sp(<<"1">>, <<"R", "1">>) >>,
      << Sp(<<"1", "0">>, Date_dmY), <<"h">> >> }

RECURSIVE LinesOf(_, _)
LinesOf(bs, terminated) ==
    IF bs = <<>> THEN <<>>
    ELSE IF Len(bs) = 1 /\ ~terminated THEN bs[1]
    ELSE bs[1] \o <<STAR>> \o LinesOf(Tail(bs), terminated)

InitSnd ==
    /\ op = "snd"
    /\ pc = "start"
    /\ lines \in {LinesOf(bs, t) : bs \in SeqsUpTo(SndBlocks, MaxSndBlocks),
                                   t \in BOOLEAN}
    /\ blocks = <<>>
    /\ block_index = 0
    /\ cur = 0
    /\ snd_metadata = EmptyRecord
    /\ data_blocks = <<>>
    /\ errors = <<>>
    /\ raised = "none"
    /\ ret = Unused
    /\ symbol = 0
    /\ block = <<>>
    /\ mapping = Unused
    /\ parsed_snd_block = <<>>

\* lines 371-375
EmptyMetadata ==
    Merge(Merge(_initialize_empty_mapping(first_block_mapping),
                _initialize_empty_mapping(second_block_mapping)),
          _initialize_empty_mapping(third_block_mapping))

\* a variant of the check of line 378 that lets two blocks through
TooFewBlocksOffByOne(blks) == Len(blks) < min_blocks - 1

\* line 378
TooFewBlocks(blks) == Len(blks) < min_blocks

\* a block reached by indexing `blocks`, decoded with a table
BlockMetadata(blk, table) ==
    IF blk.exc # "none" THEN Raise(blk.exc) ELSE _parse_metadata_block(blk.val, table)

BlockIsData(blk) ==
    IF blk.exc # "none" THEN Raise(blk.exc) ELSE _is_data_block(blk.val)

SndReturnEarly(msg) ==
    /\ errors' = <<msg>>
    /\ snd_metadata' = EmptyMetadata
    /\ block_index' = block_index
    /\ pc' = "done"
    /\ raised' = raised

SndRaise(e) ==
    /\ errors' = <<>>
    /\ snd_metadata' = snd_metadata
    /\ block_index' = block_index
    /\ pc' = "done"
    /\ raised' = e

\* lines 384-401: the first block, the second inside `try ... except
\* ValueError`, the third only when it is not a data block
SndHeader(first_block, second_block, third_is_data, third_block) ==
    IF first_block.exc # "none"
    THEN SndRaise(first_block.exc)
    ELSE IF second_block.exc = "ValueError"
    THEN SndReturnEarly("File doesnt contain second metadatablock. Cannot parse")
    ELSE IF second_block.exc # "none"
    THEN SndRaise(second_block.exc)
    ELSE IF third_is_data.exc # "none"
    THEN SndRaise(third_is_data.exc)
    ELSE IF third_is_data.val
    THEN /\ errors' = <<>>
         /\ snd_metadata' = Merge(Merge(first_block.val, second_block.val),
                                  _initialize_empty_mapping(third_block_mapping))
         /\ block_index' = 2
         /\ pc' = "scan"
         /\ raised' = raised
    ELSE IF third_block.exc # "none"
    THEN SndRaise(third_block.exc)
    ELSE /\ errors' = <<>>
         /\ snd_metadata' = Merge(Merge(first_block.val, second_block.val),
                                  third_block.val)
         /\ block_index' = 3
         /\ pc' = "scan"
         /\ raised' = raised

SndBeginWith(blks) ==
    /\ blocks' = blks
    /\ IF TooFewBlocks(blks)
       THEN SndReturnEarly("File contains less than 3 blocks. Cannot parse")
       ELSE SndHeader(BlockMetadata(Item(blks, 0), first_block_mapping),
                      BlockMetadata(Item(blks, 1), second_block_mapping),
                      BlockIsData(Item(blks, 2)),
                      BlockMetadata(Item(blks, 2), third_block_mapping))

\* lines 362-403
SndBegin ==
    /\ op = "snd"
    /\ pc = "start"
    /\ SndBeginWith(_get_blocks(lines))
    /\ cur' = 0
    /\ data_blocks' = <<>>
    /\ UNCHANGED <<op, lines, ret, symbol, block, mapping, parsed_snd_block>>

\* _SURVEY_CODE_TO_TEXT
SurveyText(code) ==
    IF code = 25 THEN StrV(<<"t", "o", "t">>) ELSE StrV(<<"c", "p", "t">>)

\* {**metadata, "data": data}
Series(metadata, data) ==
    [k \in DOMAIN metadata \cup {"data"} |-> IF k = "data" THEN data ELSE metadata[k]]

\* the except of line 426: the error is recorded, the loop goes on
ScanError ==
    /\ errors' = Append(errors, "ValueError")
    /\ cur' = cur + 1
    /\ UNCHANGED <<data_blocks, pc, raised>>

\* lines 413-417: the block after the CPT block, or the empty mapping when
\* there is none (IndexError)
TrailingMetadata(next) ==
    IF next.exc # "none"
    THEN Ok(_initialize_empty_mapping(cpt_unknown_block_mapping))
    ELSE _parse_metadata_block(next.val, cpt_unknown_block_mapping)

\* lines 418-420: the series is added and the loop is left
ScanCpt(metadata, data, cpt_unknown_metadata) ==
    IF cpt_unknown_metadata.exc # "none"
    THEN ScanError
    ELSE /\ data_blocks' = Append(data_blocks,
                                  Series(Merge(metadata, cpt_unknown_metadata.val), data))
         /\ pc' = "return"
         /\ UNCHANGED <<errors, cur, raised>>

\* lines 423-425
ScanTot(metadata, data) ==
    /\ data_blocks' = Append(data_blocks,
                             Series(metadata,
                                    _convert_comment_codes_to_indicator_columns(data)))
    /\ cur' = cur + 1
    /\ UNCHANGED <<errors, pc, raised>>

\* lines 407-427 for one data block
ScanData(parsed) ==
    IF parsed.exc = "ValueError"
    THEN ScanError
    ELSE IF parsed.exc # "none"
    THEN /\ raised' = parsed.exc
         /\ pc' = "done"
         /\ UNCHANGED <<errors, cur, data_blocks>>
    ELSE IF IsCode(parsed.metadata["survey_type_code"], 7)
    THEN ScanCpt(SetKey(parsed.metadata, "type", SurveyText(7)), parsed.data,
                 TrailingMetadata(Item(blocks, block_index + cur + 1)))
    ELSE ScanTot(SetKey(parsed.metadata, "type", SurveyText(25)), parsed.data)

\* one iteration of the loop of line 404
SndScanBlock ==
    /\ op = "snd"
    /\ pc = "scan"
    /\ block_index + cur < Len(blocks)
    /\ IF _is_data_block(blocks[block_index + cur + 1]).val
       THEN ScanData(_parse_unknown_data_block(blocks[block_index + cur + 1]))
       ELSE /\ cur' = cur + 1
            /\ UNCHANGED <<data_blocks, errors, pc, raised>>
    /\ UNCHANGED <<op, lines, blocks, block_index, snd_metadata, ret, symbol, block,
                   mapping, parsed_snd_block>>

\* line 429: the loop is exhausted or was left by `break`
SndReturn ==
    /\ op = "snd"
    /\ \/ pc = "return"
       \/ pc = "scan" /\ block_index + cur >= Len(blocks)
    /\ pc' = "done"
    /\ UNCHANGED <<op, lines, blocks, block_index, cur, snd_metadata, data_blocks,
                   errors, raised, ret, symbol, block, mapping, parsed_snd_block>>

NextSnd == SndBegin \/ SndScanBlock \/ SndReturn

SpecSnd == InitSnd /\ [][NextSnd]_vars

-----------------------------------------------------------------------------
(* parse_tlk_file                                                          *)

MaxTlkLines == 4

Annet == <<"A", "n", "n", "e", "t">>

TlkLines ==
    { STAR,
      <<>>,
      <<"1", ".", "5">>,
      Sp(<<"a">>, <<"b">>),
      Annet,
      Sp(<<"a">>, Annet),
      Sp(<<>>, Annet) }

InitTlk ==
    /\ op = "tlk"
    /\ pc = "start"
    /\ lines \in SeqsUpTo(TlkLines, MaxTlkLines)
    /\ blocks = <<>>
    /\ block_index = 0
    /\ cur = 0
    /\ snd_metadata = EmptyRecord
    /\ data_blocks = <<>>
    /\ errors = <<>>
    /\ raised = "none"
    /\ ret = Unused
    /\ symbol = 0
    /\ block = <<>>
    /\ mapping = Unused
    /\ parsed_snd_block = <<>>

\* lines 332-336: the empty file is an error, otherwise the lines are split
TlkBegin ==
    /\ op = "tlk"
    /\ pc = "start"
    /\ IF lines = <<>>
       THEN /\ errors' = <<"No lines found. Could not parse file">>
            /\ blocks' = blocks
            /\ pc' = "done"
       ELSE /\ errors' = errors
            /\ blocks' = _split_tlk_to_blocks(lines)
            /\ pc' = "rows"
    /\ UNCHANGED <<op, lines, block_index, cur, snd_metadata, data_blocks, raised,
                   ret, symbol, block, mapping, parsed_snd_block>>

\* lines 342-345: the block is patched when its material is "Annet"
TlkRow(blk, unknown) ==
    IF unknown.exc # "none"
    THEN Raise(unknown.exc)
    ELSE _parse_metadata_block(IF unknown.val
                               THEN _add_empty_value_as_material_text_1(blk)
                               ELSE blk,
                               tlk_data_mapping)

\* lines 346-348: the row is kept, or any exception becomes an error
TlkKeep(row) ==
    IF row.exc = "none"
    THEN /\ data_blocks' = Append(data_blocks, row.val)
         /\ errors' = errors
    ELSE /\ data_blocks' = data_blocks
         /\ errors' = Append(errors, row.exc)

\* lines 342-343: the loop variable `block` is rebound to the patched copy
TlkPatched(blk, unknown) ==
    IF unknown.exc = "none" /\ unknown.val
    THEN _add_empty_value_as_material_text_1(blk)
    ELSE blk

\* one iteration of the loop of line 339
TlkBlock ==
    /\ op = "tlk"
    /\ pc = "rows"
    /\ cur < Len(blocks)
    /\ TlkKeep(TlkRow(blocks[cur + 1], _is_unknown_material(blocks[cur + 1])))
    /\ block' = TlkPatched(blocks[cur + 1], _is_unknown_material(blocks[cur + 1]))
    /\ cur' = cur + 1
    /\ UNCHANGED <<op, pc, lines, blocks, block_index, snd_metadata, raised, ret,
                   symbol, mapping, parsed_snd_block>>

\* line 349
TlkReturn ==
    /\ op = "tlk"
    /\ pc = "rows"
    /\ cur >= Len(blocks)
    /\ pc' = "done"
    /\ UNCHANGED <<op, lines, blocks, block_index, cur, snd_metadata, data_blocks,
                   errors, raised, ret, symbol, block, mapping, parsed_snd_block>>

NextTlk == TlkBegin \/ TlkBlock \/ TlkReturn

SpecTlk == InitTlk /\ [][NextTlk]_vars

-----------------------------------------------------------------------------
(* Claims about parse_prv_file.                                            *)

Returned == pc = "done" /\ raised = "none"

\* C1: a top-level entry point never raises to its caller: whatever the
\* lines are, the call ends by returning a result (with its errors list),
\* every failure being data.  Stated for the run of parse_prv_file.
C1_EntryPointNeverRaises ==
    pc = "done" => raised = "none"

\* C3: when segmentation yields fewer than two blocks (none, or one),
\* parse_prv_file returns normally with empty data and a non-empty errors list.
C3_FewerThanTwoBlocksIsData ==
    (op = "prv" /\ pc = "done" /\ Len(_get_blocks(lines)) < 2)
        => /\ raised = "none"
           /\ data_blocks = <<>>
           /\ errors # <<>>

\* the text the claim gives a row: the joined labels, or the sentinel when
\* the decoder yields none
SoiltypeOf(labels) ==
    IF labels.val = <<>> THEN NaN ELSE StrV(JoinFrom(labels.val, 1))

\* C4: every row of the returned data (not only the last) has as
\* symbol_soiltype the non-empty joined labels of its symbol, or the sentinel
\* when there are no labels; never the empty string.
C4_EveryRowSoiltypeNonEmptyOrNaN ==
    (op = "prv" /\ Returned)
        => \A i \in 1..Len(data_blocks) :
               /\ data_blocks[i]["symbol_soiltype"]
                      = SoiltypeOf(_label_from_symbol(data_blocks[i]["symbol"]))
               /\ data_blocks[i]["symbol_soiltype"] # StrV(<<>>)

-----------------------------------------------------------------------------
(* The pure helpers, each run on its own: Init draws the argument, the     *)
(* action applies the function and records what it returned or raised.     *)

NoParse ==
    /\ lines = <<>>
    /\ blocks = <<>>
    /\ block_index = 0
    /\ cur = 0
    /\ snd_metadata = EmptyRecord
    /\ data_blocks = <<>>
    /\ errors = <<>>
    /\ raised = "none"
    /\ ret = Unused

Finish(r) ==
    /\ pc' = "done"
    /\ ret' = r.val
    /\ raised' = r.exc

(* _label_from_symbol *)

MaxSymbol == 8192

InitSym ==
    /\ op = "sym"
    /\ pc = "start"
    /\ symbol \in (0 - MaxSymbol)..MaxSymbol
    /\ block = <<>>
    /\ mapping = Unused
    /\ parsed_snd_block = <<>>
    /\ NoParse

LabelFromSymbol ==
    /\ op = "sym"
    /\ pc = "start"
    /\ Finish(_label_from_symbol(IntV(symbol)))
    /\ UNCHANGED <<op, lines, blocks, block_index, cur, snd_metadata, data_blocks,
                   errors, symbol, block, mapping, parsed_snd_block>>

SpecSym == InitSym /\ [][LabelFromSymbol]_vars

(* _is_data_block *)

CodeTokens ==
    { <<"7">>, <<"2", "5">>, <<"1", "0">>, <<"9", "9">>, <<"0", "7">>, <<"x">>,
      <<SUP2>>, <<"-", "7">> }

DateTokens ==
    { Date_dmY, Date_Ymd, Date_bad, <<"1", "2", "3">>, <<"x", "y", "z">>,
      <<"2", "0", "2", "0", "0", "1", "0", "1">>, <<"1", ".", "2", ".", "2", "0">>,
      <<"2", SUP2>> }

FirstLines ==
    {Sp(c, d) : c \in CodeTokens, d \in DateTokens}
        \cup CodeTokens
        \cup {Sp(Sp(c, Date_dmY), <<"x">>) : c \in CodeTokens}
        \cup {<<>>}

InitDisp ==
    /\ op = "isdata"
    /\ pc = "start"
    /\ symbol = 0
    /\ block \in {<<l>> : l \in FirstLines} \cup {<<l, <<"x">>>> : l \in FirstLines}
    /\ mapping = Unused
    /\ parsed_snd_block = <<>>
    /\ NoParse

IsDataBlock ==
    /\ op = "isdata"
    /\ pc = "start"
    /\ Finish(_is_data_block(block))
    /\ UNCHANGED <<op, lines, blocks, block_index, cur, snd_metadata, data_blocks,
                   errors, symbol, block, mapping, parsed_snd_block>>

SpecDisp == InitDisp /\ [][IsDataBlock]_vars

(* _parse_metadata_block and _parse_data_block *)

MaxMapLines == 2

MapLines ==
    { <<>>,
      <<"x">>,
      Sp(<<"1", ".", "5">>, <<"2">>),
      Sp(<<"7">>, Date_dmY),
      Sp(Sp(Sp(Sp(<<"1">>, <<"2">>), <<"3">>), <<"4">>), <<"k">>),
      Sp(Sp(Sp(<<"1">>, <<"2">>), <<"3">>), <<"4">>) }

MetadataTables ==
    { first_block_mapping, second_block_mapping, third_block_mapping,
      data_block_metadata_mapping, cpt_unknown_block_mapping, prv_metadata_mapping,
      tlk_data_mapping }

DataTables ==
    { [table |-> tot_data_mapping, split |-> "_tot_split_func"],
      [table |-> cpt_data_mapping, split |-> "_cpt_split_func"],
      [table |-> prv_data_mapping, split |-> "_prv_split_func"] }

InitMap ==
    /\ op \in {"meta", "rows"}
    /\ pc = "start"
    /\ symbol = 0
    /\ block \in SeqsUpTo(MapLines, MaxMapLines)
    /\ mapping \in IF op = "meta"
                   THEN {[table |-> t, split |-> Unused] : t \in MetadataTables}
                   ELSE DataTables
    /\ parsed_snd_block = <<>>
    /\ NoParse

ParseMetadataBlock ==
    /\ op = "meta"
    /\ pc = "start"
    /\ Finish(_parse_metadata_block(block, mapping.table))
    /\ UNCHANGED <<op, lines, blocks, block_index, cur, snd_metadata, data_blocks,
                   errors, symbol, block, mapping, parsed_snd_block>>

ParseDataBlock ==
    /\ op = "rows"
    /\ pc = "start"
    /\ Finish(_parse_data_block(block, mapping.table, mapping.split))
    /\ UNCHANGED <<op, lines, blocks, block_index, cur, snd_metadata, data_blocks,
                   errors, symbol, block, mapping, parsed_snd_block>>

NextMap == ParseMetadataBlock \/ ParseDataBlock

SpecMap == InitMap /\ [][NextMap]_vars

(* _convert_comment_codes_to_indicator_columns *)

MaxTokens == 3

CommentTokens ==
    { <<"R", "1">>, <<"R", "2">>, <<"7", "2">>, <<"7", "3">>, <<"7", "4">>,
      <<"7", "5">>, <<"7", "6">>, <<"7", "7">>, <<"7", "8">>, <<"7", "9">>,
      <<"4", "1">>, <<"x", "x">> }

RECURSIVE JoinTokens(_)
JoinTokens(ts) ==
    IF ts = <<>> THEN <<>>
    ELSE IF Len(ts) = 1 THEN ts[1]
    ELSE Sp(ts[1], JoinTokens(Tail(ts)))

Comments ==
    {NaN} \cup {StrV(JoinTokens(ts)) : ts \in SeqsUpTo(CommentTokens, MaxTokens)}

\* the comment of the row before: none, or one that switches flags on
EarlierComments ==
    { NaN,
      StrV(<<"R", "1">>),
      StrV(Sp(Sp(<<"7", "6">>, <<"7", "8">>), <<"R", "1">>)) }

RowWith(depth, comment) == [k \in {"dybde", "kommentar"} |->
                               IF k = "dybde" THEN FloatV(depth) ELSE comment]

InitInd ==
    /\ op = "indic"
    /\ pc = "start"
    /\ symbol = 0
    /\ block = <<>>
    /\ mapping = Unused
    /\ parsed_snd_block \in {<<RowWith(<<"1">>, e), RowWith(<<"2">>, c)>> :
                                e \in EarlierComments, c \in Comments}
    /\ NoParse

ConvertCommentCodes ==
    /\ op = "indic"
    /\ pc = "start"
    /\ Finish(Ok(_convert_comment_codes_to_indicator_columns(parsed_snd_block)))
    /\ UNCHANGED <<op, lines, blocks, block_index, cur, snd_metadata, data_blocks,
                   errors, symbol, block, mapping, parsed_snd_block>>

SpecInd == InitInd /\ [][ConvertCommentCodes]_vars

-----------------------------------------------------------------------------
(* Claims about the pure helpers.                                          *)

RECURSIVE Pow(_, _)
Pow(b, e) == IF e = 0 THEN 1 ELSE b * Pow(b, e - 1)

\* the positions of the set bits of a, and the k-th smallest of them
BitPositions(a) == {q \in 0..20 : (a \div Pow(2, q)) % 2 = 1}

KthOf(P, k) == CHOOSE q \in P : Cardinality({r \in P : r < q}) = k - 1

\* the number of decimal digits of n > 0, and its k-th digit from the left
NumDigits(n) == CHOOSE d \in 1..10 : Pow(10, d - 1) <= n /\ n < Pow(10, d)

DigitAt(n, k) == (n \div Pow(10, NumDigits(n) - k)) % 10

\* C5: for every integer code _label_from_symbol returns, without failing,
\* one negative-table label per set bit of |code| in ascending bit order, or
\* one positive-table text label per decimal digit in left-to-right order,
\* or the empty list for zero.
C5_LabelsOfEveryCode ==
    (op = "sym" /\ pc = "done")
        => /\ raised = "none"
           /\ symbol < 0 =>
                  /\ Len(ret) = Cardinality(BitPositions(0 - symbol))
                  /\ \A k \in 1..Len(ret) :
                         /\ KthOf(BitPositions(0 - symbol), k) < Len(_SYMBOL_LABELS_NEG)
                         /\ ret[k] = _SYMBOL_LABELS_NEG[KthOf(BitPositions(0 - symbol), k) + 1]
           /\ symbol > 0 =>
                  /\ Len(ret) = NumDigits(symbol)
                  /\ \A k \in 1..Len(ret) :
                         /\ ret[k] = _SYMBOL_LABELS_POS[DigitAt(symbol, k) + 1]
                         /\ ret[k] # NanLabel
           /\ symbol = 0 => ret = <<>>

\* what the claim takes a data block's first line to be
DateOrDigits(date) == _try_parse_datetime(date).exc = "none" \/ IsDigit(date)

KnownCode(code) ==
    /\ IsDigit(code)
    /\ IntOf(code).exc = "none"
    /\ IntOf(code).val.n \in {7, 10, 21, 22, 23, 24, 25, 26}

\* C6: a non-empty block is a data block iff its first line has exactly two
\* tokens, the first all digits with a value among the known survey codes,
\* the second a date or all digits; a first token that is no known code is
\* never a data block.
C6_DataBlockIffKnownCodeAndDate ==
    (op = "isdata" /\ pc = "done")
        => /\ raised = "none"
           /\ ret <=> /\ Len(Split(block[1])) = 2
                      /\ KnownCode(Split(block[1])[1])
                      /\ DateOrDigits(Split(block[1])[2])

\* C7: whatever the table and the block, each record made by
\* _parse_metadata_block or _parse_data_block has exactly the table's key
\* set: a field that cannot be decoded is the sentinel for that field only,
\* and the other fields and rows are still extracted.
C7_RecordsHaveTheTableKeys ==
    (op \in {"meta", "rows"} /\ pc = "done")
        => /\ raised = "none"
           /\ op = "meta" =>
                  DOMAIN ret = DOMAIN _initialize_empty_mapping(mapping.table)
           /\ op = "rows" =>
                  /\ Len(ret) = Len(block)
                  /\ \A i \in 1..Len(ret) :
                         DOMAIN ret[i] = DOMAIN _initialize_empty_mapping(mapping.table)

\* the numeric code a comment token stands for, -1 for an unrecognised token
CodeOf(token) ==
    IF Translate(token) \in TextcodeValues THEN IntOf(Translate(token)).val.n ELSE -1

OnCodes(flag) ==
    CASE flag = "okt_rotasjon" -> {70}
      [] flag = "spyling" -> {72, 76}
      [] flag = "slag" -> {74, 76}
      [] flag = "pumping" -> {78}

OffCodes(flag) ==
    CASE flag = "okt_rotasjon" -> {71}
      [] flag = "spyling" -> {73, 77}
      [] flag = "slag" -> {75, 77}
      [] flag = "pumping" -> {79}

Flags == {"okt_rotasjon", "spyling", "slag", "pumping"}

TokensOf(comment) == IF comment.t = "str" THEN Split(comment.s) ELSE <<>>

\* the positions of the tokens that affect the flag
Affecting(tokens, flag) ==
    {k \in 1..Len(tokens) : CodeOf(tokens[k]) \in OnCodes(flag) \cup OffCodes(flag)}

LastOf(K) == CHOOSE k \in K : \A j \in K : j <= k

FlagByLastToken(tokens, flag) ==
    IF Affecting(tokens, flag) = {}
    THEN NaN
    ELSE IF CodeOf(tokens[LastOf(Affecting(tokens, flag))]) \in OnCodes(flag)
         THEN IntV(1)
         ELSE IntV(0)

\* C8: in every row each of the four flags is what the last token of that
\* row's comment affecting it sets (on-code 1, off-code 0), the sentinel when
\* no token of the row affects it, whatever the earlier rows held.
C8_FlagIsSetByLastAffectingToken ==
    (op = "indic" /\ pc = "done")
        => /\ Len(ret) = Len(parsed_snd_block)
           /\ \A i \in 1..Len(ret) : \A flag \in Flags :
                  ret[i][flag] =
                      FlagByLastToken(TokensOf(parsed_snd_block[i]["kommentar"]), flag)

\* an on-code followed by the off-code of the same flag, after a row that
\* switched the flag on, leaves the flag off
C8_Witness ==
    /\ op = "indic"
    /\ pc = "done"
    /\ parsed_snd_block[1]["kommentar"] = StrV(<<"R", "1">>)
    /\ parsed_snd_block[2]["kommentar"]
           = StrV(Sp(Sp(<<"7", "6">>, <<"x", "x">>), <<"7", "5">>))
    /\ ret[1]["okt_rotasjon"] = IntV(1)
    /\ ret[2]["okt_rotasjon"] = NaN
    /\ ret[2]["slag"] = IntV(0)
    /\ ret[2]["spyling"] = IntV(1)

-----------------------------------------------------------------------------
(* Claims about parse_snd_file.                                            *)

\* a block classified as a data block whose survey code is 7 (CPT)
IsCptBlock(blk) ==
    /\ _is_data_block(blk).val
    /\ IntOf(Split(blk[1])[1]).val.n = 7

\* the 0-based positions of the scanned blocks that are CPT data blocks
CptPositions == {i \in block_index..(Len(blocks) - 1) : IsCptBlock(blocks[i + 1])}

FirstCpt == CHOOSE i \in CptPositions : \A j \in CptPositions : i <= j

CptEntries == {i \in 1..Len(data_blocks) : data_blocks[i]["type"] = SurveyText(7)}

CptKeys == DOMAIN _initialize_empty_mapping(cpt_unknown_block_mapping)

TrailingOf(i) ==
    IF i + 1 < Len(blocks)
    THEN _parse_metadata_block(blocks[i + 2], cpt_unknown_block_mapping).val
    ELSE [k \in CptKeys |-> NaN]

\* C2: once a scanned block is a CPT data block the scan ends at it: the scan
\* never moves past that block, exactly one series entry is added for it (the
\* last one), its trailing metadata is the following block's, or all
\* sentinels when no block follows, and no later block adds a series or an
\* error.
C2_ScanEndsAtCptBlock ==
    (op = "snd" /\ block_index >= 2 /\ raised = "none" /\ CptPositions # {})
        => /\ block_index + cur <= FirstCpt
           /\ pc \in {"return", "done"} =>
                  /\ block_index + cur = FirstCpt
                  /\ Cardinality(CptEntries) = 1
                  /\ Len(data_blocks) \in CptEntries
                  /\ \A k \in CptKeys :
                         data_blocks[Len(data_blocks)][k] = TrailingOf(FirstCpt)[k]

\* the keys a table defines: its whole-line fields and the fields of its
\* nested groups
TableKeys(table) ==
    {table[i].key : i \in {j \in 1..Len(table) : ~table[j].isNested}}
        \cup UNION {{table[i].nested[j].key : j \in 1..Len(table[i].nested)} :
                       i \in {j \in 1..Len(table) : table[j].isNested}}

FileKeys ==
    TableKeys(first_block_mapping) \cup TableKeys(second_block_mapping)
        \cup TableKeys(third_block_mapping)

\* C9: with fewer than three blocks parse_snd_file returns a non-empty errors
\* list, no series, and every metadata field of the three file-level tables
\* as the sentinel: no block is decoded.
C9_FewerThanThreeBlocks ==
    (op = "snd" /\ pc = "done" /\ Len(_get_blocks(lines)) < 3)
        => /\ raised = "none"
           /\ errors # <<>>
           /\ data_blocks = <<>>
           /\ snd_metadata = [k \in FileKeys |-> NaN]

\* two blocks that could each be decoded, and are not
C9_Witness ==
    /\ op = "snd"
    /\ pc = "done"
    /\ _get_blocks(lines) = << << <<"3">> >>, << <<"3">> >> >>
    /\ errors # <<>>
    /\ snd_metadata["x"] = NaN

-----------------------------------------------------------------------------
(* Claims about parse_tlk_file.                                            *)

\* the lines before the first "*" line
RECURSIVE BeforeStar(_)
BeforeStar(ls) ==
    IF ls = <<>> \/ ls[1] = STAR THEN <<>> ELSE <<ls[1]>> \o BeforeStar(Tail(ls))

\* the full groups of three consecutive lines, in order
GroupsOfThree(ls) ==
    [g \in 1..(Len(ls) \div 3) |-> <<ls[3 * g - 2], ls[3 * g - 1], ls[3 * g]>>]

\* C10: _split_tlk_to_blocks returns only blocks of exactly three lines: the
\* lines before the first "*" line grouped three by three in order, a final
\* group of fewer than three lines being discarded.
C10_OnlyBlocksOfThreeLines ==
    (op = "tlk" /\ pc \in {"rows", "done"} /\ lines # <<>>)
        => /\ \A i \in 1..Len(blocks) : Len(blocks[i]) = 3
           /\ blocks = GroupsOfThree(BeforeStar(lines))

\* the block the last iteration of the loop took, as the caller holds it
TakenBlock == blocks[cur]

IsAnnetBlock(blk) ==
    /\ _is_unknown_material(blk).exc = "none"
    /\ _is_unknown_material(blk).val

\* the tokens of `patched` are one synthetic token followed by those of
\* `original`
OneTokenInserted(patched, original) ==
    /\ Len(patched) = Len(original) + 1
    /\ \A j \in 1..Len(original) : patched[j + 1] = original[j]

\* C11: for every block whose first line ends with the token "Annet", the
\* first line as patched before mapping has exactly one more whitespace token
\* than the original, every original token keeping its text one position to
\* the right, and the caller's blocks and lines are left as they were.
C11_PatchInsertsOneLeadingToken ==
    (op = "tlk" /\ pc \in {"rows", "done"} /\ cur >= 1 /\ IsAnnetBlock(TakenBlock))
        => /\ OneTokenInserted(Split(block[1]), Split(TakenBlock[1]))
           /\ blocks = _split_tlk_to_blocks(lines)

=============================================================================
